---- MODULE Spec2Model ----
(***************************************************************************)
(* stock_ai: the webhook task coordinator (app.py) and the incremental     *)
(* synchronisation script (get_data/get_data.py).                          *)
(*                                                                         *)
(* Spec      the Flask process: concurrent POST /webhook handlers, the     *)
(*           task_running flag, task_lock and the background threads.      *)
(* FairSpec  Spec with the fairness of the thread scheduler.               *)
(* SpecResolve  fetch_all_tickers called once against any upstream listing.*)
(* SpecSync  runs of the script get_data.py, one after the other, against  *)
(*           one database and a source that gains rows between runs.       *)
(* SpecFetch fetch_historical_data called once on a database that already  *)
(*           holds tables, with Date columns of several types, and a       *)
(*           source whose quotes are not all numbers.                      *)
(***************************************************************************)
EXTENDS Integers, Sequences, FiniteSets, TLC

\* ------------------------------------------------------------------ bounds
\* Number of POST /webhook requests the process receives.
MaxReq == 3

Reqs == 1..MaxReq

\* ------------------------------------------------- the Authorization header
\* A header value is a sequence of chunks; the chunk " " is one whitespace
\* character, every other chunk is a run of non-whitespace characters.
\* Consecutive non-whitespace chunks are one word of the header.
SP == " "

\* os.getenv("WEBHOOK_TOKEN", "default-secret-token")
WEBHOOK_TOKEN == <<"default-secret-token">>

\* request.headers.get("Authorization") of a request without the header.
None == <<"None">>

\* The header values the clients send.
Headers ==
  { None,
    <<>>,
    <<SP>>,
    <<"Bearer">>,
    <<"default-secret-token">>,
    <<"Bearer", "default-secret-token">>,
    <<"Bearer", SP, "default-secret-token">>,
    <<"bearer", SP, "default-secret-token">>,
    <<"BEARER", SP, SP, "default-secret-token", SP>>,
    <<SP, "Bearer", SP, "default-secret-token">>,
    <<"Basic", SP, "default-secret-token">>,
    <<"Bearer", SP, "DEFAULT-SECRET-TOKEN">>,
    <<"Bearer", SP, "wrong">>,
    <<"Bearer", SP, "default-secret-token", "x">>,
    <<"Bearer", SP, "default-secret-token", SP, "x">>,
    <<"Basic", SP, "wrong">> }

\* str.lower() of one chunk.
LowerChunk(c) ==
  CASE c = "Bearer" -> "bearer"
    [] c = "BEARER" -> "bearer"
    [] c = "Basic" -> "basic"
    [] c = "DEFAULT-SECRET-TOKEN" -> "default-secret-token"
    [] OTHER -> c

\* str.lower() of a word.
Lower(w) == [i \in 1..Len(w) |-> LowerChunk(w[i])]

\* str.split(): the words of h, split at runs of whitespace, no empty word.
RECURSIVE SplitFrom(_, _, _)
SplitFrom(h, cur, acc) ==
  IF h = <<>>
  THEN IF cur = <<>> THEN acc ELSE Append(acc, cur)
  ELSE IF Head(h) = SP
       THEN SplitFrom(Tail(h), <<>>, IF cur = <<>> THEN acc ELSE Append(acc, cur))
       ELSE SplitFrom(Tail(h), Append(cur, Head(h)), acc)

Split(h) == SplitFrom(h, <<>>, <<>>)

\* `if not auth_header`: the header is absent or the empty string.
MissingHeader(h) == h = None \/ h = <<>>

\* `auth_type, token = auth_header.split()` raises ValueError unless there
\* are exactly two words.
UnpackFails(h) == Len(Split(h)) # 2

\* `auth_type.lower() != "bearer" or token != WEBHOOK_TOKEN`
BadTokenMut(h) ==
  Lower(Split(h)[1]) # <<"bearer">> /\ Split(h)[2] # WEBHOOK_TOKEN

BadToken(h) ==
  Lower(Split(h)[1]) # <<"bearer">> \/ Split(h)[2] # WEBHOOK_TOKEN

\* The decorator's verdict on a header: TRUE when the wrapped view is called.
Authorized(h) ==
  /\ ~MissingHeader(h)
  /\ ~UnpackFails(h)
  /\ ~BadToken(h)

\* ------------------------------------------------------ ticker identifiers
\* An identifier is a sequence of one-character strings.
UpperLetters ==
  {"A", "B", "C", "D", "E", "F", "G", "H", "I", "J", "K", "L", "M",
   "N", "O", "P", "Q", "R", "S", "T", "U", "V", "W", "X", "Y", "Z"}

\* The character class [A-Z-.] of the filter's pattern.
SafeChars == UpperLetters \cup {"-", "."}

\* MySQL table name length limit used by the filter.
MaxNameLen == 64

\* Code points of the characters the candidates are written in: the order
\* sorted() compares strings by.
Ord(c) ==
  CASE c = "\n" -> 10
    [] c = "-" -> 45
    [] c = "." -> 46
    [] c = "1" -> 49
    [] c = "A" -> 65
    [] c = "B" -> 66
    [] c = "_" -> 95
    [] c = "a" -> 97
    [] OTHER -> 90

\* a < b for Python strings, compared from position k on.
RECURSIVE StrLessFrom(_, _, _)
StrLessFrom(a, b, k) ==
  IF k > Len(b) THEN FALSE
  ELSE IF k > Len(a) THEN TRUE
  ELSE IF a[k] = b[k] THEN StrLessFrom(a, b, k + 1)
  ELSE Ord(a[k]) < Ord(b[k])

StrLess(a, b) == StrLessFrom(a, b, 1)

Range(q) == {q[j] : j \in 1..Len(q)}

\* sorted(list(S))
RECURSIVE Sorted(_)
Sorted(S) ==
  IF S = {} THEN <<>>
  ELSE LET m == CHOOSE x \in S : \A y \in S \ {x} : StrLess(x, y)
       IN <<m>> \o Sorted(S \ {m})

AllSafe(t) == \A j \in 1..Len(t) : t[j] \in SafeChars

\* re.search(r"^[A-Z-.]+$", t): one or more characters of the class from the
\* start of t up to `$`, and `$` matches at the end of t and also just before
\* a newline that is the last character of t.
PatternMatches(t) ==
  \/ Len(t) >= 1 /\ AllSafe(t)
  \/ /\ Len(t) >= 2
     /\ t[Len(t)] = "\n"
     /\ AllSafe(SubSeq(t, 1, Len(t) - 1))

\* The filter of fetch_all_tickers.
ValidTicker(t) == PatternMatches(t) /\ Len(t) <= MaxNameLen

\* [t for t in q if ...]
RECURSIVE Filtered(_)
Filtered(q) ==
  IF q = <<>> THEN <<>>
  ELSE IF ValidTicker(Head(q))
       THEN <<Head(q)>> \o Filtered(Tail(q))
       ELSE Filtered(Tail(q))

\* ticker.replace('.', '_').replace('-', '_')
TableName(t) ==
  [j \in 1..Len(t) |-> IF t[j] = "." \/ t[j] = "-" THEN "_" ELSE t[j]]

Rep(c, n) == [j \in 1..n |-> c]

\* ------------------------------------------------------- upstream listings
Sources == {"sp500", "dow", "nasdaq", "etfs"}

\* What a call of one yahoo_fin listing function does: it returns a list or
\* raises.
Returns(q) == [raises |-> "no", list |-> q]
Raises(e) == [raises |-> e, list |-> <<>>]

\* The candidates the listings are made of: valid tickers, a lower-case one,
\* one with a digit, the empty string, one ending in a newline, and names of
\* MaxNameLen and MaxNameLen + 1 characters.
Pool ==
  { <<"A">>, <<"B", ".", "B">>, <<"a">>, <<"A", "1">>, <<>>,
    <<"A", "\n">>, Rep("A", MaxNameLen), Rep("A", MaxNameLen + 1) }

\* What a source can answer when fetch_all_tickers is examined alone: the
\* S&P 500 and the ETF listing range over the whole pool, the other two over
\* valid tickers.
WideOutcomes ==
  {Raises("Exception"), Raises("AttributeError"), Returns(<<>>)}
    \cup {Returns(<<c>>) : c \in Pool}
    \cup {Returns(<<(<<"B">>), (<<"A">>)>>), Returns(<<(<<"A">>), (<<"A">>)>>)}

NarrowOutcomes ==
  {Raises("Exception"), Returns(<<(<<"A">>)>>), Returns(<<(<<"B">>), (<<"A">>)>>)}

ResolveListings ==
  { [sp500 |-> a, dow |-> b, nasdaq |-> c, etfs |-> d] :
      a \in WideOutcomes, b \in NarrowOutcomes, c \in NarrowOutcomes,
      d \in WideOutcomes }

\* ----------------------------------------------- the synchronisation inputs
\* Number of runs of the script, and the last market day of the model.
MaxRuns == 2
MaxDate == 2

\* start_date = "1950-01-01": dates are day numbers, the floor is day 0.
EpochFloor == 0

TickerA == <<"A">>
TickerBdashB == <<"B", "-", "B">>
TickerBdotB == <<"B", ".", "B">>

\* The tickers the listings of a synchronisation run are made of.
SyncTickers == {TickerA, TickerBdashB, TickerBdotB}

\* The listings a synchronisation run can meet: every source up, one index
\* source down, every source down.
SyncListings ==
  { [sp500 |-> Returns(<<TickerBdotB, TickerA>>), dow |-> Returns(<<TickerA>>),
     nasdaq |-> Returns(<<>>), etfs |-> Returns(<<TickerBdashB>>)],
    [sp500 |-> Returns(<<TickerA>>), dow |-> Raises("Exception"),
     nasdaq |-> Returns(<<TickerBdotB>>), etfs |-> Returns(<<TickerBdashB>>)],
    [sp500 |-> Raises("Exception"), dow |-> Raises("Exception"),
     nasdaq |-> Raises("Exception"), etfs |-> Raises("Exception")] }

\* The table names of the database.
TableNames == {TableName(t) : t \in SyncTickers}

\* The statements of the try block that can raise while one ticker is
\* processed: the watermark query, the conversion of MAX(Date) to a date,
\* history(), the Date normalisation, pd.to_numeric, and to_sql before or
\* after it created a missing table.
Faults ==
  {"watermark", "last_date", "fetch", "normalize", "to_numeric", "write",
   "write_after_create"}

\* How the driver returns the values of a table's Date column: a
\* datetime.date, a datetime.datetime, a 'YYYY-MM-DD' string, a string with
\* a time of day after the date, or an integer.
ColTypes == {"date", "datetime", "str", "str_time", "int"}

\* The value of SELECT MAX(Date) for a column of type c whose greatest date
\* is day d.
Scalar(c, d) ==
  CASE c = "date" -> [type |-> "date", day |-> d]
    [] c = "datetime" -> [type |-> "datetime", day |-> d, time |-> "16:00:00"]
    [] c = "str" -> [type |-> "str", day |-> d, rest |-> ""]
    [] c = "str_time" -> [type |-> "str", day |-> d, rest |-> " 00:00:00"]
    [] c = "int" -> [type |-> "int", day |-> d]

\* SELECT MAX(Date) of a table without rows.
Null == [type |-> "NoneType"]

\* A quote the source reports for Open, High, Low, Close or Volume: a float,
\* a string that reads as a number, NaN, or any other string.
Quotes == {"float", "numeric_string", "nan", "text"}

\* pd.to_numeric of one value, errors='raise': the number, NaN, or a
\* ValueError for a string that is not a number.
to_numeric(q) ==
  CASE q = "float" -> "float"
    [] q = "numeric_string" -> "float"
    [] q = "nan" -> "nan"
    [] q = "text" -> "ValueError"

\* What to_sql stores for a value of a float column: NaN becomes NULL.
Stored(v) == IF v = "nan" THEN "null" ELSE v

\* The ticker lists fetch_historical_data is examined with on its own.
FetchLists == {<<TickerA>>, <<TickerA, TickerBdashB>>}

\* --------------------------------------------------------------- the state
VARIABLES
  task_running,   \* app.py global task_running
  task_lock,      \* holder of task_lock: Free, <<"handler", r>> or <<"worker", r>>
  pc,             \* position of the handler of request r
  header,         \* Authorization header of request r while require_token reads it
  resp,           \* HTTP status answered to request r, 0 while unanswered
  thread,         \* position of the background thread started for request r
  outcome,        \* how run_data_collection() ended in that thread
  pcS,            \* position of the script get_data.py
  run,            \* number of runs of the script started
  upstream,       \* what each yahoo_fin listing function does when called
  called,         \* the listing functions fetch_all_tickers has called
  tickers,        \* fetch_all_tickers: the list `tickers`
  valid_tickers,  \* fetch_all_tickers: its result, tickers_to_fetch of the script
  i,              \* fetch_historical_data: position in ticker_list
  ext,            \* the dates Yahoo Finance holds rows for, per ticker
  quote,          \* the quote Yahoo Finance reports for a ticker's day 1;
                  \* the quotes of its other days are floats
  tables,         \* the tables of the database
  rows,           \* the rows of each table, in insertion order
  coltype,        \* how the driver returns the Date column of each table
  result,         \* this run, per ticker: "pending", "saved", "empty" or "failed"
  start,          \* this run: start_date of each ticker when its iteration ended
  raised,         \* in the loop: the statement that raised in the iteration
                  \* that just ended, "none" when none did
  arrived,        \* TRUE when Yahoo Finance gained rows since this run started
  prev            \* whether rows arrived between the previous run and this
                  \* one and, when none did, the previous run's universe and
                  \* the tickers it processed without an exception

coordVars == <<task_running, task_lock, pc, header, resp, thread, outcome>>

resolveVars == <<upstream, called, tickers, valid_tickers>>

srcVars == <<ext, quote>>

dbVars == <<tables, rows, coltype>>

runVars == <<i, result, start, raised>>

syncVars == <<pcS, run, resolveVars, srcVars, dbVars, runVars, arrived, prev>>

vars == <<coordVars, syncVars>>

Free == <<"free", 0>>
NoRequest == <<"no-request">>

\* threads that are inside run_task_in_background and have not reset the flag
Active == {r \in Reqs : thread[r] \in {"try", "finally", "reset"}}

NoListing == [s \in Sources |-> Returns(<<>>)]
NoResult == [t \in SyncTickers |-> "pending"]
NoStart == [t \in SyncTickers |-> EpochFloor]
NoRows == [n \in TableNames |-> <<>>]
NoExt == [t \in SyncTickers |-> {}]
Floats == [t \in SyncTickers |-> "float"]
DateColumns == [n \in TableNames |-> "date"]
NoPrev == [universe |-> <<>>, ok |-> {}, arrived |-> FALSE]

Init ==
  /\ task_running = FALSE
  /\ task_lock = Free
  /\ pc = [r \in Reqs |-> "new"]
  /\ header = [r \in Reqs |-> NoRequest]
  /\ resp = [r \in Reqs |-> 0]
  /\ thread = [r \in Reqs |-> "none"]
  /\ outcome = [r \in Reqs |-> "none"]
  /\ pcS = "idle"
  /\ run = 0
  /\ upstream = NoListing
  /\ called = {}
  /\ tickers = <<>>
  /\ valid_tickers = <<>>
  /\ i = 0
  /\ ext = NoExt
  /\ quote = Floats
  /\ tables = {}
  /\ rows = NoRows
  /\ coltype = DateColumns
  /\ result = NoResult
  /\ start = NoStart
  /\ raised = "none"
  /\ arrived = FALSE
  /\ prev = NoPrev

\* The rows an earlier run stored for ticker t: those of days 1..k.
OldRows(t, k) == [j \in 1..k |-> [Date |-> j, ticker |-> t, Close |-> "float"]]

\* The ticker a table that is already there was written for.
OwnerOf(n) == IF n = TableName(TickerA) THEN TickerA ELSE TickerBdashB

\* What fetch_historical_data can find of one table: it is missing, or it
\* is there with the rows of days 1..k and a Date column of type c. A table
\* without rows has a DATE column, and a day is left for the source to be
\* ahead of the table.
TableStates ==
  {[there |-> FALSE, k |-> 0, c |-> "date"], [there |-> TRUE, k |-> 0, c |-> "date"]}
    \cup {[there |-> TRUE, k |-> k, c |-> c] : k \in 1..(MaxDate - 1), c \in ColTypes}

\* The databases fetch_historical_data can find.
Databases ==
  { [tables |-> {n \in TableNames : st[n].there},
     rows |-> [n \in TableNames |-> OldRows(OwnerOf(n), st[n].k)],
     coltype |-> [n \in TableNames |-> st[n].c]] :
      st \in [TableNames -> TableStates] }

\* fetch_historical_data(engine, ticker_list) is entered: the list, the
\* database and what the source holds for the tickers of the list are any of
\* the above.
InitFetch ==
  /\ task_running = FALSE
  /\ task_lock = Free
  /\ pc = [r \in Reqs |-> "new"]
  /\ header = [r \in Reqs |-> NoRequest]
  /\ resp = [r \in Reqs |-> 0]
  /\ thread = [r \in Reqs |-> "none"]
  /\ outcome = [r \in Reqs |-> "none"]
  /\ pcS = "loop"
  /\ run = 1
  /\ upstream = NoListing
  /\ called = {}
  /\ tickers = <<>>
  /\ valid_tickers \in FetchLists
  /\ i = 1
  /\ ext \in {f \in [SyncTickers -> {1..k : k \in 0..MaxDate}] :
               \A t \in SyncTickers \ Range(valid_tickers) : f[t] = {}}
  /\ quote \in {f \in [SyncTickers -> Quotes] :
                 \A t \in SyncTickers \ Range(valid_tickers) : f[t] = "float"}
  /\ \E db \in Databases :
       /\ tables = db.tables
       /\ rows = db.rows
       /\ coltype = db.coltype
  /\ result = NoResult
  /\ start = NoStart
  /\ raised = "none"
  /\ arrived = FALSE
  /\ prev = NoPrev

\* ------------------------------------------------------------ require_token
\* A client sends POST /webhook with header h; requests are numbered in the
\* order they arrive.
Receive(r, h) ==
  /\ pc[r] = "new"
  /\ \A q \in Reqs : q < r => pc[q] # "new"
  /\ header' = [header EXCEPT ![r] = h]
  /\ pc' = [pc EXCEPT ![r] = "auth"]
  /\ UNCHANGED <<syncVars, task_running, task_lock, resp, thread, outcome>>

\* decorated_function: answer 401 or call the view. The header is not read
\* after this point and is dropped from the state.
decorated_function(r) ==
  /\ pc[r] = "auth"
  /\ header' = [header EXCEPT ![r] = NoRequest]
  /\ IF Authorized(header[r])
     THEN /\ pc' = [pc EXCEPT ![r] = "acquire"]
          /\ resp' = resp
     ELSE /\ pc' = [pc EXCEPT ![r] = "done"]
          /\ resp' = [resp EXCEPT ![r] = 401]
  /\ UNCHANGED <<syncVars, task_running, task_lock, thread, outcome>>

\* ---------------------------------------------------------- webhook_trigger
\* threading.Lock: acquire blocks while another thread holds the lock.
LockFreeMut == TRUE

LockFree == task_lock = Free

\* `with task_lock:` entered by the handler.
HandlerAcquire(r) ==
  /\ pc[r] = "acquire"
  /\ LockFree
  /\ task_lock' = <<"handler", r>>
  /\ pc' = [pc EXCEPT ![r] = "check"]
  /\ UNCHANGED <<syncVars, task_running, header, resp, thread, outcome>>

\* `if task_running:` taken: answer 429, leaving the with block.
RejectMut(r) ==
  /\ resp' = [resp EXCEPT ![r] = 429]
  /\ pc' = [pc EXCEPT ![r] = "done"]
  /\ task_lock' = Free
  /\ thread' = [thread EXCEPT ![r] = "try"]
  /\ UNCHANGED <<syncVars, task_running, header, outcome>>

Reject(r) ==
  /\ resp' = [resp EXCEPT ![r] = 429]
  /\ pc' = [pc EXCEPT ![r] = "done"]
  /\ task_lock' = Free
  /\ UNCHANGED <<syncVars, task_running, header, thread, outcome>>

HandlerCheck(r) ==
  /\ pc[r] = "check"
  /\ IF task_running
     THEN Reject(r)
     ELSE /\ pc' = [pc EXCEPT ![r] = "set"]
          /\ UNCHANGED <<syncVars, task_running, task_lock, header, resp, thread, outcome>>

\* `task_running = True`, then the with block ends and releases the lock.
HandlerSetMut(r) ==
  /\ pc[r] = "set"
  /\ task_running' = TRUE
  /\ pc' = [pc EXCEPT ![r] = "start"]
  /\ UNCHANGED <<syncVars, task_lock, header, resp, thread, outcome>>

HandlerSet(r) ==
  /\ pc[r] = "set"
  /\ task_running' = TRUE
  /\ task_lock' = Free
  /\ pc' = [pc EXCEPT ![r] = "start"]
  /\ UNCHANGED <<syncVars, header, resp, thread, outcome>>

\* threading.Thread(target=run_task_in_background).start() starts the thread.
StartThread(r) ==
  /\ pc[r] = "start"
  /\ thread' = [thread EXCEPT ![r] = "try"]
  /\ pc' = [pc EXCEPT ![r] = "respond"]
  /\ UNCHANGED <<syncVars, task_running, task_lock, header, resp, outcome>>

\* Thread.start() raises RuntimeError ("can't start new thread"): the
\* exception leaves the view, which has no handler for it, and Flask answers
\* 500. Nothing resets task_running.
StartThreadFails(r) ==
  /\ pc[r] = "start"
  /\ resp' = [resp EXCEPT ![r] = 500]
  /\ pc' = [pc EXCEPT ![r] = "done"]
  /\ UNCHANGED <<syncVars, task_running, task_lock, header, thread, outcome>>

\* `return jsonify(...), 202`
Respond(r) ==
  /\ pc[r] = "respond"
  /\ resp' = [resp EXCEPT ![r] = 202]
  /\ pc' = [pc EXCEPT ![r] = "done"]
  /\ UNCHANGED <<syncVars, task_running, task_lock, header, thread, outcome>>

\* ---------------------------------------------------- run_task_in_background
\* The module-level names get_data/get_data.py binds.
GetDataNames ==
  {"get_db_engine", "setup_logging", "fetch_all_tickers", "fetch_historical_data"}

\* `run_data_collection()`: app.py takes the name from get_data.get_data,
\* which binds no such name; the pipeline of that file is the body of its
\* `if __name__ == "__main__":` block and runs only as a script. The model
\* lets the process serve requests and resolves the name where it is used:
\* the call raises, the `except Exception` clause logs it.
WorkerCall(r) ==
  /\ thread[r] = "try"
  /\ "run_data_collection" \notin GetDataNames
  /\ outcome' = [outcome EXCEPT ![r] = "raised"]
  /\ thread' = [thread EXCEPT ![r] = "finally"]
  /\ UNCHANGED <<syncVars, task_running, task_lock, pc, header, resp>>

\* finally: `with task_lock:` entered by the background thread.
WorkerAcquire(r) ==
  /\ thread[r] = "finally"
  /\ LockFree
  /\ task_lock' = <<"worker", r>>
  /\ thread' = [thread EXCEPT ![r] = "reset"]
  /\ UNCHANGED <<syncVars, task_running, pc, header, resp, outcome>>

\* `task_running = False`, the with block ends, the thread ends.
WorkerReset(r) ==
  /\ thread[r] = "reset"
  /\ task_running' = FALSE
  /\ task_lock' = Free
  /\ thread' = [thread EXCEPT ![r] = "done"]
  /\ UNCHANGED <<syncVars, pc, header, resp, outcome>>

\* ------------------------------------------------------- fetch_all_tickers
\* fetch_all_tickers is called: `tickers = []`.
EnterFetchAllTickers ==
  /\ called' = {}
  /\ tickers' = <<>>
  /\ valid_tickers' = <<>>
  /\ pcS' = "sp500"

\* fetch_all_tickers called on its own, against the listing u.
StartResolve(u) ==
  /\ pcS = "idle"
  /\ upstream' = u
  /\ EnterFetchAllTickers
  /\ UNCHANGED <<coordVars, run, srcVars, dbVars, runVars, arrived, prev>>

\* One `tickers.extend(si.tickers_...())` of the first try block, at position
\* `here`: the statement after it is `next`; an exception leaves the block for
\* its `except Exception` clause, after which the ETF block follows.
IndexSource(s, here, next) ==
  /\ pcS = here
  /\ called' = called \cup {s}
  /\ IF upstream[s].raises = "no"
     THEN /\ tickers' = tickers \o upstream[s].list
          /\ pcS' = next
     ELSE /\ tickers' = tickers
          /\ pcS' = "etfs"
  /\ UNCHANGED <<coordVars, run, upstream, valid_tickers, srcVars, dbVars,
                 runVars, arrived, prev>>

\* `tickers.extend(si.tickers_etfs())` in its own try block: AttributeError
\* and any other Exception are logged.
EtfSource ==
  /\ pcS = "etfs"
  /\ called' = called \cup {"etfs"}
  /\ tickers' = IF upstream["etfs"].raises = "no"
                THEN tickers \o upstream["etfs"].list
                ELSE tickers
  /\ pcS' = "filter"
  /\ UNCHANGED <<coordVars, run, upstream, valid_tickers, srcVars, dbVars,
                 runVars, arrived, prev>>

\* unique_tickers = sorted(list(set(tickers))); valid_tickers = [...]; return.
FilterTickers ==
  /\ pcS = "filter"
  /\ valid_tickers' = Filtered(Sorted(Range(tickers)))
  /\ pcS' = "returned"
  /\ UNCHANGED <<coordVars, run, upstream, called, tickers, srcVars, dbVars,
                 runVars, arrived, prev>>

\* ------------------------------------------------------ the script's __main__
\* `python get_data.py` is started against the listing u: setup_logging().
StartScript(u) ==
  /\ pcS \in {"idle", "end"}
  /\ run < MaxRuns
  /\ run' = run + 1
  /\ upstream' = u
  /\ prev' = IF run = 0 THEN prev
             ELSE IF arrived THEN [NoPrev EXCEPT !.arrived = TRUE]
             ELSE [universe |-> valid_tickers,
                   ok |-> {t \in SyncTickers : result[t] \in {"saved", "empty"}},
                   arrived |-> FALSE]
  /\ arrived' = FALSE
  /\ called' = {}
  /\ tickers' = <<>>
  /\ valid_tickers' = <<>>
  /\ i' = 0
  /\ result' = NoResult
  /\ start' = NoStart
  /\ raised' = "none"
  /\ pcS' = "engine"
  /\ UNCHANGED <<coordVars, srcVars, dbVars>>

\* get_db_engine() returns an engine: TEST_MODE is False, fetch_all_tickers().
get_db_engine ==
  /\ pcS = "engine"
  /\ EnterFetchAllTickers
  /\ UNCHANGED <<coordVars, run, upstream, srcVars, dbVars, runVars, arrived, prev>>

\* get_db_engine() returns None: the script logs and ends.
get_db_engine_fails ==
  /\ pcS = "engine"
  /\ pcS' = "end"
  /\ UNCHANGED <<coordVars, run, resolveVars, srcVars, dbVars, runVars, arrived, prev>>

\* `if tickers_to_fetch:`: a list is true when it is not empty.
HasTickersMut == TRUE

HasTickers == valid_tickers # <<>>

\* `if tickers_to_fetch:` fetch_historical_data(...) `else:` a warning.
MainBranch ==
  /\ pcS = "returned"
  /\ run > 0
  /\ IF HasTickers
     THEN /\ pcS' = "loop"
          /\ i' = 1
     ELSE /\ pcS' = "end"
          /\ i' = i
  /\ UNCHANGED <<coordVars, run, resolveVars, srcVars, dbVars, result, start,
                 raised, arrived, prev>>

\* ---------------------------------------------------- fetch_historical_data
DatesOf(q) == {q[j].Date : j \in 1..Len(q)}

MaxOf(S) == CHOOSE m \in S : \A d \in S : d <= m

\* The greatest Date of a table that has rows.
MaxDateOf(tn) == MaxOf(DatesOf(rows[tn]))

\* connection.execute(SELECT MAX(Date)).scalar(): NULL for a table without
\* rows, else the greatest Date as the driver returns it.
MaxDateScalar(tn) ==
  IF rows[tn] = <<>> THEN Null ELSE Scalar(coltype[tn], MaxDateOf(tn))

\* pd.notna(result)
notna(v) == v.type # "NoneType"

\* last_date after the isinstance branches: a string is parsed with
\* '%Y-%m-%d', which raises ValueError when text remains after the date; a
\* datetime gives its date; any other value is left as it is.
LastDateNoStr(v) ==
  CASE v.type = "datetime" -> [type |-> "date", day |-> v.day]
    [] OTHER -> v

LastDateLenient(v) ==
  CASE v.type \in {"str", "datetime"} -> [type |-> "date", day |-> v.day]
    [] OTHER -> v

LastDate(v) ==
  CASE v.type = "str" ->
         IF v.rest = "" THEN [type |-> "date", day |-> v.day]
         ELSE [type |-> "ValueError"]
    [] v.type = "datetime" -> [type |-> "date", day |-> v.day]
    [] OTHER -> v

\* The table exists, MAX(Date) is not null, and the branches or
\* `last_date + timedelta(days=1)` raise: only a date can take the sum.
LastDateRaises(tn) ==
  /\ tn \in tables
  /\ notna(MaxDateScalar(tn))
  /\ LastDate(MaxDateScalar(tn)).type # "date"

\* start_date: the floor, or the day after the table's MAX(Date).
StartDateNoWatermark(tn) == EpochFloor

StartDateSameDay(tn) ==
  IF tn \in tables /\ rows[tn] # <<>> THEN MaxDateOf(tn) ELSE EpochFloor

StartDate(tn) ==
  IF tn \in tables /\ notna(MaxDateScalar(tn))
  THEN LastDate(MaxDateScalar(tn)).day + 1
  ELSE EpochFloor

\* yf.Ticker(t).history(start=s): the rows dated s or later.
History(t, s) == {d \in ext[t] : d >= s}

\* df_new.empty
EmptyMut(df) == FALSE

Empty(df) == df = {}

\* The quote of ticker t's row of day d.
QuoteOf(t, d) == IF d = 1 THEN quote[t] ELSE "float"

\* pd.to_numeric(df_new[col]) returns: no value of the column raises.
Coercible(t, df) == \A d \in df : to_numeric(QuoteOf(t, d)) # "ValueError"

\* The rows of a frame after normalisation, oldest first, as to_sql stores
\* them. The field ticker is not a column: it records the ticker the row was
\* fetched for.
RECURSIVE DfRows(_, _)
DfRows(t, D) ==
  IF D = {} THEN <<>>
  ELSE LET d == CHOOSE x \in D : \A y \in D : x <= y
       IN <<[Date |-> d, ticker |-> t,
             Close |-> Stored(to_numeric(QuoteOf(t, d)))]>>
            \o DfRows(t, D \ {d})

\* df_new.to_sql(table_name, if_exists='append'): the rows of the table after
\* the call.
to_sql_replace(tn, frame) == frame

to_sql(tn, frame) == rows[tn] \o frame

\* to_sql creates a missing table from the frame: its Date column holds
\* datetime.date values and becomes a DATE column.
Created(tn) ==
  [coltype EXCEPT ![tn] = IF tn \in tables THEN coltype[tn] ELSE "date"]

\* The for loop takes the next ticker.
NextTicker ==
  /\ i' = i + 1
  /\ pcS' = "loop"

\* `except Exception as e:` logs; the for loop takes the next ticker.
ExceptClauseMut ==
  /\ i' = i + 1
  /\ pcS' = "end"

ExceptClause ==
  /\ i' = i + 1
  /\ pcS' = "loop"

\* One iteration of the loop in which nothing raises.
ProcessTicker ==
  /\ pcS = "loop"
  /\ i <= Len(valid_tickers)
  /\ ~LastDateRaises(TableName(valid_tickers[i]))
  /\ LET t == valid_tickers[i]
         tn == TableName(t)
         s == StartDate(tn)
         df == History(t, s)
     IN /\ Empty(df) \/ Coercible(t, df)
        /\ start' = [start EXCEPT ![t] = s]
        /\ IF Empty(df)
           THEN /\ result' = [result EXCEPT ![t] = "empty"]
                /\ UNCHANGED dbVars
           ELSE /\ result' = [result EXCEPT ![t] = "saved"]
                /\ tables' = tables \cup {tn}
                /\ coltype' = Created(tn)
                /\ rows' = [rows EXCEPT ![tn] = to_sql(tn, DfRows(t, df))]
        /\ raised' = "none"
        /\ NextTicker
  /\ UNCHANGED <<coordVars, run, resolveVars, srcVars, arrived, prev>>

\* One iteration in which a statement of the try block raises: f names the
\* statement. The watermark query raises before start_date is computed, and
\* so does the conversion of a MAX(Date) that is not a date; history() raises
\* before any row is returned; normalisation, pd.to_numeric and to_sql are
\* reached only with a frame that is not empty, to_sql only when every quote
\* is a number. to_sql either fails before it creates a missing table or
\* after (CREATE TABLE is committed on its own), and it inserts within one
\* transaction.
ProcessTickerFails(f) ==
  /\ pcS = "loop"
  /\ i <= Len(valid_tickers)
  /\ (f = "last_date") => LastDateRaises(TableName(valid_tickers[i]))
  /\ (f \notin {"watermark", "last_date"}) =>
       ~LastDateRaises(TableName(valid_tickers[i]))
  /\ LET t == valid_tickers[i]
         tn == TableName(t)
         s == StartDate(tn)
         df == History(t, s)
     IN /\ (f \in {"normalize", "to_numeric", "write", "write_after_create"}) =>
             ~Empty(df)
        /\ (f = "to_numeric") => ~Coercible(t, df)
        /\ (f \in {"write", "write_after_create"}) => Coercible(t, df)
        /\ start' = [start EXCEPT ![t] =
                       IF f \in {"watermark", "last_date"} THEN EpochFloor ELSE s]
        /\ result' = [result EXCEPT ![t] = "failed"]
        /\ tables' = IF f = "write_after_create" THEN tables \cup {tn} ELSE tables
        /\ coltype' = IF f = "write_after_create" THEN Created(tn) ELSE coltype
        /\ rows' = rows
        /\ raised' = f
        /\ ExceptClause
  /\ UNCHANGED <<coordVars, run, resolveVars, srcVars, arrived, prev>>

\* The loop is exhausted: fetch_historical_data returns, the script ends.
FinishLoop ==
  /\ pcS = "loop"
  /\ i > Len(valid_tickers)
  /\ pcS' = "end"
  /\ raised' = "none"
  /\ UNCHANGED <<coordVars, run, resolveVars, srcVars, dbVars, i, result, start,
                 arrived, prev>>

\* Yahoo Finance gains the row of the next market day for ticker t. The
\* script reads a ticker's rows once per run, so a row that arrives during a
\* run is seen by that run or by the next one, as one that arrived before or
\* after the run: rows arrive between runs. Rows that arrive after the last
\* run are read by no run.
NewData(t) ==
  /\ pcS \in {"idle", "end"}
  /\ run < MaxRuns
  /\ Cardinality(ext[t]) < MaxDate
  /\ ext' = [ext EXCEPT ![t] = ext[t] \cup {Cardinality(ext[t]) + 1}]
  /\ arrived' = TRUE
  /\ UNCHANGED <<coordVars, pcS, run, resolveVars, quote, dbVars, runVars, prev>>

\* ------------------------------------------------------- the specifications
\* One step of the handler of request r, and of the thread it started.
HandlerStep(r) ==
  \/ decorated_function(r)
  \/ HandlerAcquire(r)
  \/ HandlerCheck(r)
  \/ HandlerSet(r)
  \/ StartThread(r)
  \/ StartThreadFails(r)
  \/ Respond(r)

WorkerStep(r) ==
  \/ WorkerCall(r)
  \/ WorkerAcquire(r)
  \/ WorkerReset(r)

\* The Flask process.
Next ==
  \/ \E r \in Reqs : \E h \in Headers : Receive(r, h)
  \/ \E r \in Reqs : decorated_function(r)
  \/ \E r \in Reqs : HandlerAcquire(r)
  \/ \E r \in Reqs : HandlerCheck(r)
  \/ \E r \in Reqs : HandlerSet(r)
  \/ \E r \in Reqs : StartThread(r)
  \/ \E r \in Reqs : StartThreadFails(r)
  \/ \E r \in Reqs : Respond(r)
  \/ \E r \in Reqs : WorkerCall(r)
  \/ \E r \in Reqs : WorkerAcquire(r)
  \/ \E r \in Reqs : WorkerReset(r)

Spec == Init /\ [][Next]_vars

\* The threads of the process are scheduled by the operating system: a
\* handler or a background thread that can take a step eventually takes one.
\* Nothing obliges a client to send a request.
FairSpec ==
  /\ Init
  /\ [][Next]_vars
  /\ \A r \in Reqs : WF_vars(HandlerStep(r)) /\ WF_vars(WorkerStep(r))

\* fetch_all_tickers, called once against any listing.
NextResolve ==
  \/ pcS = "idle" /\ \E u \in ResolveListings : StartResolve(u)
  \/ IndexSource("sp500", "sp500", "dow")
  \/ IndexSource("dow", "dow", "nasdaq")
  \/ IndexSource("nasdaq", "nasdaq", "etfs")
  \/ EtfSource
  \/ FilterTickers

SpecResolve == Init /\ [][NextResolve]_vars

\* Runs of the script get_data.py against one database, one after the other.
NextSync ==
  \/ \E u \in SyncListings : StartScript(u)
  \/ get_db_engine
  \/ get_db_engine_fails
  \/ IndexSource("sp500", "sp500", "dow")
  \/ IndexSource("dow", "dow", "nasdaq")
  \/ IndexSource("nasdaq", "nasdaq", "etfs")
  \/ EtfSource
  \/ FilterTickers
  \/ MainBranch
  \/ ProcessTicker
  \/ \E f \in Faults : ProcessTickerFails(f)
  \/ FinishLoop
  \/ \E t \in SyncTickers : NewData(t)

SpecSync == Init /\ [][NextSync]_vars

\* fetch_historical_data, called once.
NextFetch ==
  \/ ProcessTicker
  \/ \E f \in Faults : ProcessTickerFails(f)
  \/ FinishLoop

SpecFetch == InitFetch /\ [][NextFetch]_vars

\* ------------------------------------------------------------------ claims
\* The requests whose run is being launched or is in progress: the handler
\* has seen task_running False and has not yet started its thread, or the
\* thread it started has not yet reset the flag.
InFlight == {r \in Reqs : pc[r] \in {"set", "start"}} \cup Active

\* C1: single-flight. Under every interleaving of handlers and background
\* threads at most one run is being launched or is in progress: two triggers
\* never both pass the check of task_running, and a trigger that arrives
\* during a run starts no thread.
C1_SingleFlight == Cardinality(InFlight) <= 1

\* A run is in progress and a trigger that arrived during it was answered 429.
C1_Witness ==
  \E r, q \in Reqs : r # q /\ thread[r] = "try" /\ resp[q] = 429 /\ thread[q] = "none"

\* C2: release on every exit path. Whenever task_running is True it is
\* eventually False again, however the run ended or failed to start.
C2_EventuallyIdle == task_running ~> ~task_running

\* C3: an accepted trigger launches the synchronisation run. When the thread
\* of an accepted trigger has left run_data_collection(), the ticker universe
\* has been resolved and every ticker of it has been attempted.
C3_RunsPipeline ==
  \A r \in Reqs :
    outcome[r] # "none" =>
      /\ pcS = "end"
      /\ "etfs" \in called
      /\ \A t \in Range(valid_tickers) : result[t] # "pending"

\* C4: a rejected trigger is a no-op. The handler that finds task_running True
\* answers 429, starts no thread and leaves task_running True and the tables
\* as they are; and 429 is answered only then.
C4_RejectedNoOp ==
  [][\A r \in Reqs :
       /\ (pc[r] = "check" /\ task_running /\ pc'[r] # "check") =>
            /\ resp'[r] = 429
            /\ pc'[r] = "done"
            /\ task_running'
            /\ thread' = thread
            /\ outcome' = outcome
            /\ dbVars' = dbVars
       /\ (resp[r] # 429 /\ resp'[r] = 429) =>
            pc[r] = "check" /\ task_running]_vars

\* A trigger was answered 429 while the run that caused it is in progress.
C4_Witness ==
  \E r, q \in Reqs : resp[r] = 429 /\ thread[r] = "none" /\ thread[q] = "try"

\* The headers C5 speaks of: absent, not exactly two whitespace-separated
\* parts, a scheme other than bearer in any case, or another token.
C5_Invalid(h) ==
  \/ h = None
  \/ Len(Split(h)) # 2
  \/ Lower(Split(h)[1]) # <<"bearer">>
  \/ Split(h)[2] # <<"default-secret-token">>

\* C5: the authorization gate. A request with such a header is answered 401
\* by the decorator, its handler never reaches the view, and task_running,
\* task_lock and the threads are as before, whether a run is in progress or
\* not.
C5_AuthGate ==
  [][\A r \in Reqs :
       (pc[r] = "auth" /\ pc'[r] # "auth" /\ C5_Invalid(header[r])) =>
         /\ resp'[r] = 401
         /\ pc'[r] = "done"
         /\ task_running' = task_running
         /\ task_lock' = task_lock
         /\ thread' = thread]_vars

\* A request was answered 401 and a run is in progress, task_running True.
C5_Witness ==
  \E r, q \in Reqs :
    resp[r] = 401 /\ thread[r] = "none" /\ thread[q] = "try" /\ task_running

\* The rows the run fetched for ticker t: the source's rows from start[t] on.
NewRows(t) == Range(DfRows(t, History(t, start[t])))

\* C6: bulkhead isolation. When fetch_historical_data has returned, every
\* ticker of the list has been attempted, whatever raised for the others, and
\* the new rows of every ticker whose own steps did not raise are in its
\* table.
C6_Bulkhead ==
  (pcS = "end" /\ i > 0 /\ ~arrived) =>
    \A t \in Range(valid_tickers) :
      /\ result[t] # "pending"
      /\ result[t] \in {"saved", "empty"} =>
           NewRows(t) \subseteq Range(rows[TableName(t)])

\* A run over three tickers ended: the second one failed, the first and the
\* third were saved.
C6_Witness ==
  /\ pcS = "end"
  /\ ~arrived
  /\ Len(valid_tickers) = 3
  /\ result[valid_tickers[1]] = "saved"
  /\ result[valid_tickers[2]] = "failed"
  /\ result[valid_tickers[3]] = "saved"

\* A run has ended that followed another run over the same universe, and the
\* source gained no row since that other run started.
SecondRunSameData ==
  /\ pcS = "end"
  /\ run >= 2
  /\ i > 0
  /\ ~prev.arrived
  /\ valid_tickers = prev.universe

C8_NoDuplicateMonotone ==
  /\ [](\A n \in TableNames : \A j, k \in 1..Len(rows[n]) :
          j # k => rows[n][j].Date # rows[n][k].Date)
  /\ [][\A n \in TableNames :
          rows[n] # <<>> =>
            /\ rows'[n] # <<>>
            /\ MaxOf(DatesOf(rows'[n])) >= MaxOf(DatesOf(rows[n]))]_vars

\* A second run appended rows behind a watermark to a table that two tickers
\* share.
C8_Witness ==
  /\ run = 2
  /\ \E t \in SyncTickers :
       /\ result[t] = "saved"
       /\ start[t] > EpochFloor
       /\ \E j, k \in 1..Len(rows[TableName(t)]) :
            rows[TableName(t)][j].ticker # rows[TableName(t)][k].ticker

\* The identifiers C9 calls valid: one or more characters, all of the
\* safe-name alphabet, at most MaxNameLen of them.
C9_SafeName(c) ==
  /\ Len(c) >= 1
  /\ \A j \in 1..Len(c) : c[j] \in SafeChars
  /\ Len(c) <= MaxNameLen

\* C9: universe validity. The list fetch_all_tickers returns is sorted, has
\* no duplicates and holds exactly the valid ones among the candidates the
\* sources returned.
C9_UniverseValid ==
  pcS = "returned" =>
    /\ \A j, k \in 1..Len(valid_tickers) :
         j < k => StrLess(valid_tickers[j], valid_tickers[k])
    /\ Range(valid_tickers) = {c \in Range(tickers) : C9_SafeName(c)}

\* C10: independent fault tolerance of the sources. When fetch_all_tickers
\* returns, the valid identifiers of every source that does not raise are in
\* the universe, whichever other source raises.
C10_IndependentSources ==
  pcS = "returned" =>
    \A s \in Sources :
      upstream[s].raises = "no" =>
        \A c \in Range(upstream[s].list) :
          ValidTicker(c) => c \in Range(valid_tickers)

\* C11: append-only persistence. Across the runs of the script, whatever
\* raises in them, no step removes a table or removes or changes a row: after
\* every step each table holds the rows it held before, in place, and
\* possibly more behind them.
C11_AppendOnly ==
  [][/\ tables \subseteq tables'
     /\ \A n \in TableNames :
          /\ Len(rows[n]) <= Len(rows'[n])
          /\ SubSeq(rows'[n], 1, Len(rows[n])) = rows[n]]_vars

\* In a second run one ticker failed and another one had rows appended to a
\* table that held rows of the first run.
C11_Witness ==
  /\ run = 2
  /\ \E t, u \in SyncTickers :
       /\ result[u] = "failed"
       /\ result[t] = "saved"
       /\ start[t] > EpochFloor
       /\ Len(rows[TableName(t)]) > Cardinality(History(t, start[t]))

\* C12: the start of the fetch window. Whenever history() is called for a
\* ticker, start_date is the floor if the ticker's table is missing or has no
\* MAX(Date), and the day after the greatest stored Date otherwise; and a
\* MAX(Date) that comes back as a 'YYYY-MM-DD' string, a datetime or a date
\* is converted without an exception.
C12_FetchWindow ==
  [][(pcS = "loop" /\ i <= Len(valid_tickers) /\ i' = i + 1) =>
       LET t == valid_tickers[i]
           tn == TableName(t)
       IN /\ (raised' \notin {"watermark", "last_date"}) =>
               start'[t] = IF tn \notin tables \/ rows[tn] = <<>>
                           THEN EpochFloor
                           ELSE MaxDateOf(tn) + 1
          /\ (tn \in tables /\ rows[tn] # <<>>
                /\ coltype[tn] \in {"str", "datetime", "date"}) =>
               raised' # "last_date"]_vars

\* The first ticker's table returns MAX(Date) as a string; rows of the day
\* after it were fetched and saved.
C12_Witness ==
  /\ pcS = "loop"
  /\ i = 2
  /\ coltype[TableName(valid_tickers[1])] = "str"
  /\ result[valid_tickers[1]] = "saved"
  /\ start[valid_tickers[1]] = EpochFloor + 2

\* C13: one table per ticker. Two different tickers of the universe never
\* have the same table name, and all the rows of a table were fetched for
\* one ticker.
C13_TablePerEntity ==
  /\ \A j, k \in 1..Len(valid_tickers) :
       j # k => TableName(valid_tickers[j]) # TableName(valid_tickers[k])
  /\ \A n \in TableNames : \A j, k \in 1..Len(rows[n]) :
       rows[n][j].ticker = rows[n][k].ticker

\* C14: tolerance of values that are not numbers. When history() returns
\* rows of which a quote is a string that is not a number, and no statement
\* other than the conversion of the quotes raises, the iteration does not
\* raise and the ticker's rows are in its table, that quote stored as null.
C14_NonNumericTolerated ==
  [][(pcS = "loop" /\ i <= Len(valid_tickers) /\ i' = i + 1) =>
       LET t == valid_tickers[i]
           tn == TableName(t)
           df == History(t, start'[t])
       IN (/\ raised' \in {"none", "to_numeric"}
           /\ \E d \in df : QuoteOf(t, d) = "text") =>
            /\ raised' = "none"
            /\ result'[t] = "saved"
            /\ \A d \in df : \E j \in 1..Len(rows'[tn]) :
                 /\ rows'[tn][j].Date = d
                 /\ rows'[tn][j].ticker = t
                 /\ QuoteOf(t, d) = "text" => rows'[tn][j].Close = "null"]_vars

\* The table of ticker t holds rows and its MAX(Date) is neither a date, a
\* datetime nor a 'YYYY-MM-DD' string.
C15_Unparsable(t) ==
  /\ TableName(t) \in tables
  /\ rows[TableName(t)] # <<>>
  /\ coltype[TableName(t)] \in {"str_time", "int"}

\* C15: a watermark that cannot be parsed fails the ticker and nothing else.
\* The iteration of such a ticker raises before history() is called, changes
\* no table, is caught, and the loop goes on with the next ticker.
C15_UnparsableWatermark ==
  [][(/\ pcS = "loop"
      /\ i <= Len(valid_tickers)
      /\ i' = i + 1
      /\ C15_Unparsable(valid_tickers[i])) =>
       /\ raised' \in {"watermark", "last_date"}
       /\ result'[valid_tickers[i]] = "failed"
       /\ tables' = tables
       /\ rows' = rows
       /\ pcS' = "loop"]_vars

\* The first ticker's watermark could not be parsed and its iteration
\* failed; the second ticker's rows were saved after it.
C15_Witness ==
  /\ pcS = "end"
  /\ Len(valid_tickers) = 2
  /\ C15_Unparsable(valid_tickers[1])
  /\ result[valid_tickers[1]] = "failed"
  /\ result[valid_tickers[2]] = "saved"

\* C16: an empty fetch is a no-op. When history() returns and returns no
\* row, no statement of the iteration raises, no table is created, no row is
\* written, and the loop goes on with the next ticker.
C16_EmptyFetchNoOp ==
  [][(/\ pcS = "loop"
      /\ i <= Len(valid_tickers)
      /\ i' = i + 1
      /\ raised' \notin {"watermark", "last_date", "fetch"}
      /\ History(valid_tickers[i], start'[valid_tickers[i]]) = {}) =>
       /\ raised' = "none"
       /\ result'[valid_tickers[i]] = "empty"
       /\ tables' = tables
       /\ rows' = rows
       /\ pcS' = "loop"]_vars

\* The source had no row for the first ticker, which has no table, and the
\* second ticker's rows were saved after it.
C16_Witness ==
  /\ pcS = "end"
  /\ Len(valid_tickers) = 2
  /\ result[valid_tickers[1]] = "empty"
  /\ TableName(valid_tickers[1]) \notin tables
  /\ result[valid_tickers[2]] = "saved"

\* C17: fire-and-forget acceptance. task_lock is held by a handler only
\* between its check and its set of task_running, and by a background thread
\* only for the reset: never while the thread is started, while the run is in
\* progress or while 202 is answered. The handler that started a thread can
\* answer 202 whatever that thread is doing.
C17_FireAndForget ==
  /\ \A r \in Reqs : task_lock = <<"handler", r>> => pc[r] \in {"check", "set"}
  /\ \A r \in Reqs : task_lock = <<"worker", r>> => thread[r] = "reset"
  /\ \A r \in Reqs : pc[r] = "respond" => ENABLED Respond(r)

\* 202 was answered while the run it started is in progress, and a trigger
\* that arrived during that run has been answered 429.
C17_Witness ==
  \E r, q \in Reqs :
    /\ resp[r] = 202
    /\ thread[r] = "try"
    /\ resp[q] = 429
    /\ task_lock = Free

\* C18: the flag corresponds to the worker. task_running is True exactly
\* when the thread of an accepted trigger is about to be started or has been
\* started and has not reset the flag, and as many threads were started as
\* triggers were or are about to be answered 202.
C18_FlagMatchesWorker ==
  /\ task_running <=>
       \E r \in Reqs : pc[r] = "start" \/ thread[r] \in {"try", "finally", "reset"}
  /\ Cardinality({r \in Reqs : thread[r] # "none"})
       = Cardinality({r \in Reqs : pc[r] = "respond" \/ resp[r] = 202})

\* Every listing function raises when the script calls it.
AllSourcesRaise == \A s \in Sources : upstream[s].raises # "no"

\* C19: an empty universe is not an error. In a run in which every listing
\* function raises, fetch_all_tickers returns the empty list, the script
\* does not enter fetch_historical_data, no ticker is attempted and no table
\* changes.
C19_EmptyUniverse ==
  /\ []((run > 0 /\ AllSourcesRaise) =>
          /\ valid_tickers = <<>>
          /\ pcS \in {"engine", "sp500", "etfs", "filter", "returned", "end"}
          /\ i = 0
          /\ result = NoResult
          /\ raised = "none")
  /\ [][AllSourcesRaise' => dbVars' = dbVars]_vars

\* Such a run ended after fetch_all_tickers returned, in a database that
\* holds rows of an earlier run.
C19_Witness ==
  /\ AllSourcesRaise
  /\ pcS = "end"
  /\ called = {"sp500", "etfs"}
  /\ tickers = <<>>
  /\ \E n \in tables : rows[n] # <<>>

====
